---- MODULE Spec2Model ----
(***************************************************************************)
(* Model of the two dashboard components of the repository:                *)
(*   App          src/digitalTwin.jsx                                      *)
(*   DigitalTwin  src/unnamed/part_000                                     *)
(* Both keep a transactions list behind a transaction form, derive a risk  *)
(* label from it and relay chat messages to a generative-language API.     *)
(* The variable `component` says which of the two is mounted.              *)
(*                                                                         *)
(* Time: `now` counts clock ticks (the value of Date.now() / new Date());  *)
(* calendar dates are day numbers and the session lies within day Today.   *)
(* Amounts are whole numbers; form.amount is the text of the number input, *)
(* modelled as <<>> (empty text) or <<n>> (the numeral of n).              *)
(***************************************************************************)
EXTENDS Integers, Sequences, FiniteSets, TLC

\* ---------------------------------------------------------------- bounds
MaxClock == 1
MaxOps == 3
MaxEarlyOps == 0
MaxWrites == 1
MaxDocs == 2
MaxChat == 2
MaxInFlight == 2
MaxText == 5
Today == 100

\* ------------------------------------------------------- program constants
WindowDays == 30

defaultCategories ==
  {"Food", "Subscriptions", "Transport", "Fun", "Health", "Needs", "Wants",
   "Gambling", "High-Risk Investments", "Investment", "Pension", "Education",
   "Savings", "Travel"}

Components == {"App", "DigitalTwin"}

\* ------------------------------------------------------------ input sets
\* values the user types or picks in the transaction form
FormAmounts == {9}
FormCategories == {"Food", "Gambling"}
FormDates == {Today}
\* contents a document store may hold from earlier sessions (SpecRisk)
StoredAmounts == {0, 1, 9, 19, 99}
StoredCategories == {"Food", "Wants", "Gambling", "High-Risk Investments"}
StoredDates == {Today - WindowDays, Today, Today + 1}

\* ------------------------------------------------------------ identities
NoUser == "null"
LocalUser == "local-user"
LocalUid == "local-rnd"
AuthUid == "uid"
Users == {LocalUser, LocalUid, AuthUid}

\* ids are <<kind, n>>: a store-assigned document id or `local-<Date.now()>`
NoId == <<"none", 0>>
DocId(n) == <<"doc", n>>
LocalId(t) == <<"local", t>>

IdLess(a, b) == \/ a[1] = "doc" /\ b[1] = "local"
                \/ a[1] = b[1] /\ a[2] < b[2]

\* `${new Date().toISOString().slice(0,10)}`
todayISO == Today

defaultForm == [amount |-> <<>>, category |-> "Food", date |-> todayISO]

\* ------------------------------------------------------- sequence helpers
RECURSIVE SumAmount(_)
SumAmount(s) == IF s = <<>> THEN 0 ELSE Head(s).amount + SumAmount(Tail(s))

RECURSIVE SortDocs(_)
SortDocs(S) ==
  IF S = {} THEN <<>>
  ELSE LET m == CHOOSE d \in S : \A e \in S : e = d \/ ~IdLess(e.id, d.id)
       IN <<m>> \o SortDocs(S \ {m})

Ids(s) == {s[i].id : i \in DOMAIN s}
Range(s) == {s[i] : i \in DOMAIN s}

\* ---------------------------------------------------------- risk labels
\* transactions.filter(t => new Date(t.date) > thirtyDaysAgo)
recentTransactions(txs) ==
  LET isRecent(t) == t.date > Today - WindowDays IN SelectSeq(txs, isRecent)

categorySpend(txs, cats) ==
  LET inCat(t) == t.category \in cats IN SumAmount(SelectSeq(txs, inCat))

\* mutant: getRiskLabel without its `total === 0` guard
App_getRiskLabel_noZeroGuard(txs) ==
  LET recent == recentTransactions(txs)
      total == SumAmount(recent)
      risky == categorySpend(recent, {"Gambling"})
               + categorySpend(recent, {"High-Risk Investments"})
      wantsSpending == categorySpend(recent, {"Wants"})
                       + categorySpend(recent, {"Subscriptions"})
                       + categorySpend(recent, {"Fun"})
  IN IF 100 * risky > 10 * total THEN "Extremely High Risk"
     ELSE IF 100 * risky > 5 * total \/ 100 * wantsSpending > 50 * total
       THEN "High Risk"
     ELSE IF 100 * risky > 1 * total \/ 100 * wantsSpending > 30 * total
       THEN "Moderate Risk"
     ELSE "Low Risk"

\* percentages are compared as 100 * part > threshold * total (total > 0)
App_getRiskLabel(txs) ==
  LET recent == recentTransactions(txs)
      total == SumAmount(recent)
      risky == categorySpend(recent, {"Gambling"})
               + categorySpend(recent, {"High-Risk Investments"})
      wantsSpending == categorySpend(recent, {"Wants"})
                       + categorySpend(recent, {"Subscriptions"})
                       + categorySpend(recent, {"Fun"})
  IN IF total = 0 THEN "No Spending Data"
     ELSE IF 100 * risky > 10 * total THEN "Extremely High Risk"
     ELSE IF 100 * risky > 5 * total \/ 100 * wantsSpending > 50 * total
       THEN "High Risk"
     ELSE IF 100 * risky > 1 * total \/ 100 * wantsSpending > 30 * total
       THEN "Moderate Risk"
     ELSE "Low Risk"

\* mutant: riskLabel with inclusive thresholds (pct >= 10, 5, 1)
DT_riskLabel_inclusive(txs) ==
  LET recent == recentTransactions(txs)
      total == SumAmount(recent)
      gambling == categorySpend(recent, {"Gambling"})
      highRisk == categorySpend(recent, {"High-Risk Investments"})
  IN IF total = 0 THEN "Low Risk"
     ELSE IF 100 * (gambling + highRisk) >= 10 * total THEN "Extremely High Risk"
     ELSE IF 100 * (gambling + highRisk) >= 5 * total THEN "High Risk"
     ELSE IF 100 * (gambling + highRisk) >= 1 * total THEN "Moderate Risk"
     ELSE "Low Risk"

\* mutant: riskLabel answering 'No Spending Data' when nothing was spent
DT_riskLabel_noData(txs) ==
  LET recent == recentTransactions(txs)
      total == SumAmount(recent)
      gambling == categorySpend(recent, {"Gambling"})
      highRisk == categorySpend(recent, {"High-Risk Investments"})
  IN IF total = 0 THEN "No Spending Data"
     ELSE IF 100 * (gambling + highRisk) > 10 * total THEN "Extremely High Risk"
     ELSE IF 100 * (gambling + highRisk) > 5 * total THEN "High Risk"
     ELSE IF 100 * (gambling + highRisk) > 1 * total THEN "Moderate Risk"
     ELSE "Low Risk"

\* total === 0 ? 0 : ((gambling + highRisk) / total) * 100, then pct > 10,
\* pct > 5, pct > 1
DT_riskLabel(txs) ==
  LET recent == recentTransactions(txs)
      total == SumAmount(recent)
      gambling == categorySpend(recent, {"Gambling"})
      highRisk == categorySpend(recent, {"High-Risk Investments"})
  IN IF total = 0 THEN "Low Risk"
     ELSE IF 100 * (gambling + highRisk) > 10 * total THEN "Extremely High Risk"
     ELSE IF 100 * (gambling + highRisk) > 5 * total THEN "High Risk"
     ELSE IF 100 * (gambling + highRisk) > 1 * total THEN "Moderate Risk"
     ELSE "Low Risk"

\* ------------------------------------------------------------------ state
VARIABLES
  component,       \* which component is mounted: "App" or "DigitalTwin"
  initPc,          \* position of the mount-time initialisation effect
  db,              \* App: db # null;  DigitalTwin: firebaseClient.db # null
  userId,
  listening,       \* an onSnapshot listener is subscribed (under userId)
  transactions,
  form,
  editingId,
  showConfetti,
  remote,          \* document store: user -> set of transaction documents
  localStore,      \* browser local storage
  writes,          \* remote writes issued and not yet settled, in order
  now,             \* clock
  nextId,          \* next fresh document id of the store
  ops,             \* number of submits, deletes and reloads so far
  last,            \* the handler step taken last: [op, id]
  selectedPersona,
  chatInput,
  chatHistory,
  isChatLoading,
  requests         \* chat requests awaiting their response

txVars == <<component, initPc, db, userId, listening, transactions, form,
            editingId, showConfetti, remote, localStore, writes, now, nextId,
            ops, last>>
chatVars == <<selectedPersona, chatInput, chatHistory, isChatLoading, requests>>
vars == <<txVars, chatVars>>

\* `last` after a step that no property observes
noOp == [op |-> "none", id |-> NoId]

\* the user acts once initialisation has settled, or earlier for the first
\* MaxEarlyOps operations
ready == initPc = "done" \/ (initPc # "start" /\ ops < MaxEarlyOps)

\* a reading of the clock, which never runs backwards
ClockReadings == {t \in {now, now + 1} : t <= MaxClock}

\* useState(...) initial values, src/digitalTwin.jsx:15-27, part_000:28-38
InitComponentState ==
  /\ initPc = "start"
  /\ db = FALSE
  /\ userId = (IF component = "App" THEN NoUser ELSE LocalUser)
  /\ listening = FALSE
  /\ transactions = <<>>
  /\ form = defaultForm
  /\ editingId = NoId
  /\ showConfetti = FALSE
  /\ writes = <<>>
  /\ selectedPersona = "Current You"
  /\ chatInput = <<>>
  /\ chatHistory = <<>>
  /\ isChatLoading = FALSE
  /\ requests = <<>>

emptyLocalStore == [uid |-> NoUser, txs |-> [u \in Users |-> <<>>]]

Init ==
  /\ component \in Components
  /\ InitComponentState
  /\ remote = [u \in Users |-> {}]
  /\ localStore = emptyLocalStore
  /\ now = 0
  /\ nextId = 1
  /\ ops = 0
  /\ last = noOp

\* --------------------------------------------------------- local storage
\* getLocalKey(userId) item: <<>> when absent, <<list>> when it holds the
\* JSON text of list (numbers and strings only, which JSON reproduces)
getLocalKey(ls, uid) == ls.txs[uid]

\* loadLocal: the stored array replaces transactions when the item exists
loadLocal(ls, uid, cur) ==
  IF uid # NoUser /\ getLocalKey(ls, uid) # <<>> THEN getLocalKey(ls, uid)[1] ELSE cur

\* the persist effect: runs after a render whose transactions, firebaseClient
\* or userId changed
persistEffect(ls, dbv, uid, txs) ==
  IF ~dbv /\ uid # NoUser THEN [ls EXCEPT !.txs[uid] = <<txs>>] ELSE ls

\* localStorage.getItem('digital-twin:local-user-id') || `local-${random}`
localUid(ls) == IF ls.uid # NoUser THEN ls.uid ELSE LocalUid

\* settleLocal whose last render does not persist the loaded list
settleLocal_overwritten(ls, uid, cur) ==
  LET loaded == loadLocal(ls, uid, cur)
  IN [txs |-> loaded,
      ls |-> persistEffect(ls, FALSE, uid, cur)]

\* the load and persist effects of the render that follows setUserId(uid)
\* in local mode: load runs first, persist writes that render's list, and the
\* render caused by the load persists the loaded list
settleLocal(ls, uid, cur) ==
  LET loaded == loadLocal(ls, uid, cur)
  IN [txs |-> loaded,
      ls |-> persistEffect(persistEffect(ls, FALSE, uid, cur), FALSE, uid, loaded)]

\* ------------------------------------------------------------- mounting
App_initEffect ==
  /\ component = "App" /\ initPc = "start"
  /\ \/ \* firebaseConfig.apiKey missing, or initializeApp throws
        /\ initPc' = "done"
        /\ UNCHANGED db
     \/ /\ db' = TRUE
        /\ initPc' = "authWait"
  /\ last' = [op |-> "mount", id |-> NoId]
  /\ UNCHANGED <<component, userId, listening, transactions, form, editingId,
                 showConfetti, remote, localStore, writes, now, nextId, ops>>
  /\ UNCHANGED chatVars

App_onAuthStateChanged ==
  /\ component = "App" /\ initPc = "authWait"
  /\ \/ \* user (possibly after a successful sign-in)
        /\ userId' = AuthUid
        /\ listening' = TRUE
     \/ \* no user and the sign-in throws: logged only
        /\ UNCHANGED <<userId, listening>>
  /\ initPc' = "done"
  /\ last' = noOp
  /\ UNCHANGED <<component, db, transactions, form, editingId, showConfetti,
                 remote, localStore, writes, now, nextId, ops>>
  /\ UNCHANGED chatVars

DT_tryInitFirebase ==
  /\ component = "DigitalTwin" /\ initPc = "start"
  /\ LET first == settleLocal(localStore, LocalUser, <<>>)
     IN \/ \* no window.__firebase_config: local-only mode
           LET uid == localUid(localStore)
               snd == settleLocal([first.ls EXCEPT !.uid = uid], uid, first.txs)
           IN /\ userId' = uid
              /\ transactions' = snd.txs
              /\ localStore' = [snd.ls EXCEPT !.txs[LocalUser] = <<(<<>>)>>]
              /\ initPc' = "done"
        \/ \* configured: the scripts are loading
           /\ transactions' = first.txs
           /\ localStore' = first.ls
           /\ initPc' = "loading"
           /\ UNCHANGED userId
  /\ last' = [op |-> "mount", id |-> NoId]
  /\ UNCHANGED <<component, db, listening, form, editingId, showConfetti,
                 remote, writes, now, nextId, ops>>
  /\ UNCHANGED chatVars

DT_initFirebaseDone ==
  /\ component = "DigitalTwin" /\ initPc = "loading"
  /\ \/ \* setFirebaseClient({ auth, db })
        /\ db' = TRUE
        /\ listening' = TRUE
        /\ initPc' = "authWait"
        /\ UNCHANGED <<userId, transactions, localStore>>
     \/ \* a script fails to load or the firebase global is missing
        LET uid == localUid(localStore)
            s == settleLocal([localStore EXCEPT !.uid = uid], uid, transactions)
        IN /\ userId' = uid
           /\ transactions' = s.txs
           /\ localStore' = s.ls
           /\ initPc' = "done"
           /\ UNCHANGED <<db, listening>>
  /\ last' = [op |-> "mount", id |-> NoId]
  /\ UNCHANGED <<component, form, editingId, showConfetti, remote, writes,
                 now, nextId, ops>>
  /\ UNCHANGED chatVars

DT_onAuthStateChanged ==
  /\ component = "DigitalTwin" /\ initPc = "authWait"
  /\ \/ /\ userId' = AuthUid
        /\ UNCHANGED localStore
     \/ \* sign-in throws: local identity, firebaseClient stays set
        /\ userId' = localUid(localStore)
        /\ localStore' = [localStore EXCEPT !.uid = localUid(localStore)]
  /\ listening' = TRUE
  /\ initPc' = "done"
  /\ last' = noOp
  /\ UNCHANGED <<component, db, transactions, form, editingId, showConfetti,
                 remote, writes, now, nextId, ops>>
  /\ UNCHANGED chatVars

\* ------------------------------------------------------ document store
noData == [amount |-> 0, category |-> "Food", date |-> 0, timestamp |-> 0]

\* ({ id: doc.id, ...doc.data() })
mkTx(id, data) ==
  [id |-> id, amount |-> data.amount, category |-> data.category,
   date |-> data.date, timestamp |-> data.timestamp]

\* the effect of a write on a user's collection: addDoc / coll.add,
\* setDoc / docRef.set (whole-document replace), deleteDoc / docRef.delete
applyWrite(docs, w, fresh) ==
  CASE w.op = "add" -> docs \cup {mkTx(DocId(fresh), w.data)}
    [] w.op = "set" -> {d \in docs : d.id # w.id} \cup {mkTx(w.id, w.data)}
    [] w.op = "delete" -> {d \in docs : d.id # w.id}

\* ----------------------------------------------------- form conversions
\* parseFloat(form.amount) of a non-empty numeral
parseFloat(text) == text[1]
\* Number(form.amount || 0)
NumberOrZero(text) == IF text = <<>> THEN 0 ELSE text[1]
\* transaction.amount.toString()
App_amountText(amount) == <<amount>>
\* String(tx.amount || '')
DT_amountText(amount) == IF amount = 0 THEN <<>> ELSE <<amount>>

\* ------------------------------------------------------- form handlers
\* handleInputChange / handleInput: one field of the form changes
fieldValues(name) ==
  CASE name = "amount" -> {<<a>> : a \in FormAmounts}
    [] name = "category" -> FormCategories
    [] name = "date" -> FormDates

handleInput ==
  /\ ready
  /\ \E name \in {"amount", "category", "date"} :
       \E value \in fieldValues(name) : form' = [form EXCEPT ![name] = value]
  /\ form' # form
  /\ last' = noOp
  /\ UNCHANGED <<component, initPc, db, userId, listening, transactions,
                 editingId, showConfetti, remote, localStore, writes, now,
                 nextId, ops>>
  /\ UNCHANGED chatVars

handleEdit ==
  /\ ready
  /\ \E i \in DOMAIN transactions :
       LET tx == transactions[i]
       IN /\ form' = [amount |-> IF component = "App"
                                   THEN App_amountText(tx.amount)
                                   ELSE DT_amountText(tx.amount),
                      category |-> tx.category, date |-> tx.date]
          /\ editingId' = tx.id
          /\ last' = noOp
  /\ UNCHANGED <<component, initPc, db, userId, listening, transactions,
                 showConfetti, remote, localStore, writes, now, nextId, ops>>
  /\ UNCHANGED chatVars

\* the Cancel button of DigitalTwin's form, shown while editingId is set
DT_cancelEdit ==
  /\ component = "DigitalTwin" /\ ready
  /\ editingId # NoId
  /\ editingId' = NoId
  /\ form' = defaultForm
  /\ last' = noOp
  /\ UNCHANGED <<component, initPc, db, userId, listening, transactions,
                 showConfetti, remote, localStore, writes, now, nextId, ops>>
  /\ UNCHANGED chatVars

\* --------------------------------------------------------- App handlers
App_transactionData(t) ==
  [amount |-> parseFloat(form.amount), category |-> form.category,
   date |-> form.date, timestamp |-> t]

\* handleSubmit up to its await; the form's required fields are filled
App_handleSubmit ==
  /\ component = "App" /\ ready
  /\ form.amount # <<>>
  /\ ops < MaxOps
  /\ ops' = ops + 1
  /\ IF ~db \/ userId = NoUser
       THEN /\ last' = [op |-> "submitNoop", id |-> editingId]
            /\ UNCHANGED <<writes, now>>
       ELSE /\ Len(writes) < MaxWrites
            /\ \E t \in ClockReadings :
                 /\ now' = t
                 /\ writes' = Append(writes,
                      [op |-> IF editingId # NoId THEN "set" ELSE "add",
                       id |-> editingId, data |-> App_transactionData(t),
                       user |-> userId, stage |-> "sent"])
            /\ last' = [op |-> "submit", id |-> editingId]
  /\ UNCHANGED <<component, initPc, db, userId, listening, transactions, form,
                 editingId, showConfetti, remote, localStore, nextId>>
  /\ UNCHANGED chatVars

App_handleDelete ==
  /\ component = "App" /\ ready
  /\ ops < MaxOps
  /\ ops' = ops + 1
  /\ \E i \in DOMAIN transactions :
       LET id == transactions[i].id
       IN IF ~db \/ userId = NoUser
            THEN /\ last' = [op |-> "deleteNoop", id |-> id]
                 /\ UNCHANGED writes
            ELSE /\ Len(writes) < MaxWrites
                 /\ writes' = Append(writes,
                      [op |-> "delete", id |-> id, data |-> noData,
                       user |-> userId, stage |-> "sent"])
                 /\ last' = [op |-> "delete", id |-> id]
  /\ UNCHANGED <<component, initPc, db, userId, listening, transactions, form,
                 editingId, showConfetti, remote, localStore, now, nextId>>
  /\ UNCHANGED chatVars

\* the store applies the oldest write that was sent
storeCommit ==
  /\ writes # <<>> /\ writes[1].stage = "sent"
  /\ LET w == writes[1]
     IN /\ remote' = [remote EXCEPT ![w.user] = applyWrite(@, w, nextId)]
        /\ nextId' = IF w.op = "add" THEN nextId + 1 ELSE nextId
        /\ writes' = [writes EXCEPT ![1].stage = "committed"]
        /\ last' = [op |-> (CASE w.op = "add" -> "commitAdd"
                              [] w.op = "set" -> "commitSet"
                              [] w.op = "delete" -> "commitDelete"),
                    id |-> IF w.op = "add" THEN DocId(nextId) ELSE w.id]
  /\ UNCHANGED <<component, initPc, db, userId, listening, transactions, form,
                 editingId, showConfetti, localStore, now, ops>>
  /\ UNCHANGED chatVars

\* the code after the awaited write without the form reset
afterSubmit_keepForm(w) ==
  /\ editingId' = IF w.op = "set" THEN NoId ELSE editingId
  /\ showConfetti' = IF w.op = "add" THEN TRUE ELSE showConfetti
  /\ form' = form

\* the code after the awaited write: shared by App.handleSubmit and
\* DigitalTwin.handleSubmit (handleDelete has none)
afterSubmit(w) ==
  /\ editingId' = IF w.op = "set" THEN NoId ELSE editingId
  /\ showConfetti' = IF w.op = "add" THEN TRUE ELSE showConfetti
  /\ form' = defaultForm

\* the awaited write resolves
writeResolved ==
  /\ writes # <<>> /\ writes[1].stage = "committed"
  /\ LET w == writes[1]
     IN /\ IF w.op = "delete"
             THEN UNCHANGED <<editingId, showConfetti, form>>
             ELSE afterSubmit(w)
        /\ last' = [op |-> "resolved", id |-> w.id]
  /\ writes' = Tail(writes)
  /\ UNCHANGED <<component, initPc, db, userId, listening, transactions,
                 remote, localStore, now, nextId, ops>>
  /\ UNCHANGED chatVars

\* the awaited write throws in App: the catch block only logs
App_writeRejected ==
  /\ component = "App"
  /\ writes # <<>> /\ writes[1].stage = "sent"
  /\ writes' = Tail(writes)
  /\ last' = [op |-> "rejected", id |-> writes[1].id]
  /\ UNCHANGED <<component, initPc, db, userId, listening, transactions, form,
                 editingId, showConfetti, remote, localStore, now, nextId, ops>>
  /\ UNCHANGED chatVars

\* -------------------------------------------------- DigitalTwin handlers
\* mutant: the payload reads a form field that does not exist
DT_payload_noCategory(t) ==
  [amount |-> NumberOrZero(form.amount), category |-> "undefined",
   date |-> IF form.date # 0 THEN form.date ELSE todayISO, timestamp |-> t]

DT_payload(t) ==
  [amount |-> NumberOrZero(form.amount), category |-> form.category,
   date |-> IF form.date # 0 THEN form.date ELSE todayISO, timestamp |-> t]

\* saveToBackend's fallback: [{ ...tx, id: `local-${Date.now()}` }, ...prev]
saveLocal(prev, tx, t) == <<mkTx(LocalId(t), tx)>> \o prev

\* updateBackend's fallback: prev.map(p => p.id === id ? { ...p, ...tx } : p)
updateLocal(prev, id, tx) ==
  [i \in DOMAIN prev |-> IF prev[i].id = id THEN mkTx(prev[i].id, tx) ELSE prev[i]]

\* deleteFromBackend's fallback: prev.filter(p => p.id !== id)
deleteLocal(prev, id) ==
  LET keep(p) == p.id # id IN SelectSeq(prev, keep)

\* the local-state fallback of the three persistence helpers
localFallback(prev, w, t) ==
  CASE w.op = "add" -> saveLocal(prev, w.data, t)
    [] w.op = "set" -> updateLocal(prev, w.id, w.data)
    [] w.op = "delete" -> deleteLocal(prev, w.id)

localOpName(w, prefix) ==
  CASE w.op = "add" -> prefix \o "Add"
    [] w.op = "set" -> prefix \o "Edit"
    [] w.op = "delete" -> prefix \o "Delete"

\* handleSubmit: with a firebaseClient up to the awaited write, without one
\* to its end (the helper falls through to local state at once)
DT_handleSubmit ==
  /\ component = "DigitalTwin" /\ ready
  /\ form.amount # <<>>
  /\ ops < MaxOps
  /\ ops' = ops + 1
  /\ \E t \in ClockReadings :
       LET w == [op |-> IF editingId # NoId THEN "set" ELSE "add",
                 id |-> editingId, data |-> DT_payload(t),
                 user |-> userId, stage |-> "sent"]
       IN /\ now' = t
          /\ IF db
               THEN /\ Len(writes) < MaxWrites
                    /\ writes' = Append(writes, w)
                    /\ last' = [op |-> "submit", id |-> editingId]
                    /\ UNCHANGED <<transactions, form, editingId, showConfetti,
                                   localStore>>
               ELSE /\ transactions' = localFallback(transactions, w, t)
                    /\ afterSubmit(w)
                    /\ localStore' = persistEffect(localStore, db, userId, transactions')
                    /\ last' = [op |-> localOpName(w, "local"),
                                id |-> IF w.op = "add" THEN LocalId(t) ELSE w.id]
                    /\ UNCHANGED writes
  /\ UNCHANGED <<component, initPc, db, userId, listening, remote, nextId>>
  /\ UNCHANGED chatVars

\* handleDelete: confirm() may be declined
DT_handleDelete ==
  /\ component = "DigitalTwin" /\ ready
  /\ ops < MaxOps
  /\ ops' = ops + 1
  /\ \E i \in DOMAIN transactions :
       LET id == transactions[i].id
           w == [op |-> "delete", id |-> id, data |-> noData,
                 user |-> userId, stage |-> "sent"]
       IN \/ /\ last' = [op |-> "declineDelete", id |-> id]
             /\ UNCHANGED <<transactions, localStore, writes>>
          \/ IF db
               THEN /\ Len(writes) < MaxWrites
                    /\ writes' = Append(writes, w)
                    /\ last' = [op |-> "delete", id |-> id]
                    /\ UNCHANGED <<transactions, localStore>>
               ELSE /\ transactions' = localFallback(transactions, w, now)
                    /\ localStore' = persistEffect(localStore, db, userId, transactions')
                    /\ last' = [op |-> "localDelete", id |-> id]
                    /\ UNCHANGED writes
  /\ UNCHANGED <<component, initPc, db, userId, listening, form, editingId,
                 showConfetti, remote, now, nextId>>
  /\ UNCHANGED chatVars

\* the awaited write throws in DigitalTwin: the helper warns and falls
\* through to local state, then the handler continues
DT_writeRejected ==
  /\ component = "DigitalTwin"
  /\ writes # <<>> /\ writes[1].stage = "sent"
  /\ \E t \in (IF writes[1].op = "add" THEN ClockReadings ELSE {now}) :
       LET w == writes[1]
       IN /\ now' = t
          /\ transactions' = localFallback(transactions, w, t)
          /\ IF w.op = "delete"
               THEN UNCHANGED <<editingId, showConfetti, form>>
               ELSE afterSubmit(w)
          /\ localStore' = persistEffect(localStore, db, userId, transactions')
          /\ last' = [op |-> localOpName(w, "fallback"),
                      id |-> IF w.op = "add" THEN LocalId(t) ELSE w.id]
  /\ writes' = Tail(writes)
  /\ UNCHANGED <<component, initPc, db, userId, listening, remote, nextId, ops>>
  /\ UNCHANGED chatVars

\* a listener that merges the snapshot into the list it already holds
onSnapshot_merge ==
  /\ listening /\ db /\ userId # NoUser
  /\ transactions' =
       SortDocs(remote[userId])
         \o SelectSeq(transactions, LAMBDA t : t \notin remote[userId])
  /\ transactions' # transactions
  /\ last' = [op |-> "snapshot", id |-> NoId]
  /\ UNCHANGED <<component, initPc, db, userId, listening, form, editingId,
                 showConfetti, remote, localStore, writes, now, nextId, ops>>
  /\ UNCHANGED chatVars

\* ------------------------------------------------------------ listeners
\* the onSnapshot callback: the collection of the current user, each
\* document with its id
onSnapshot ==
  /\ listening /\ db /\ userId # NoUser
  /\ transactions' = SortDocs(remote[userId])
  /\ transactions' # transactions
  /\ last' = [op |-> "snapshot", id |-> NoId]
  /\ UNCHANGED <<component, initPc, db, userId, listening, form, editingId,
                 showConfetti, remote, localStore, writes, now, nextId, ops>>
  /\ UNCHANGED chatVars

\* the onSnapshot error callback: App logs, DigitalTwin calls loadLocal();
\* a listener that reported an error delivers nothing more
onSnapshotError ==
  /\ listening /\ db /\ userId # NoUser
  /\ listening' = FALSE
  /\ transactions' = IF component = "DigitalTwin"
                       THEN loadLocal(localStore, userId, transactions)
                       ELSE transactions
  /\ last' = [op |-> "snapshotError", id |-> NoId]
  /\ UNCHANGED <<component, initPc, db, userId, form, editingId, showConfetti,
                 remote, localStore, writes, now, nextId, ops>>
  /\ UNCHANGED chatVars

\* setTimeout(() => setShowConfetti(false), ...)
confettiTimeout ==
  /\ showConfetti
  /\ showConfetti' = FALSE
  /\ last' = noOp
  /\ UNCHANGED <<component, initPc, db, userId, listening, transactions, form,
                 editingId, remote, localStore, writes, now, nextId, ops>>
  /\ UNCHANGED chatVars

\* the page is reloaded: component state starts over, the stores remain;
\* writes the store has not applied are lost
Reload ==
  /\ initPc # "start"
  /\ ops < MaxOps
  /\ ops' = ops + 1
  /\ initPc' = "start"
  /\ db' = FALSE
  /\ userId' = (IF component = "App" THEN NoUser ELSE LocalUser)
  /\ listening' = FALSE
  /\ transactions' = <<>>
  /\ form' = defaultForm
  /\ editingId' = NoId
  /\ showConfetti' = FALSE
  /\ writes' = <<>>
  /\ selectedPersona' = "Current You"
  /\ chatInput' = <<>>
  /\ chatHistory' = <<>>
  /\ isChatLoading' = FALSE
  /\ requests' = <<>>
  /\ last' = [op |-> "reload", id |-> NoId]
  /\ UNCHANGED <<component, remote, localStore, now, nextId>>

NextTx ==
  \/ App_initEffect
  \/ App_onAuthStateChanged
  \/ DT_tryInitFirebase
  \/ DT_initFirebaseDone
  \/ DT_onAuthStateChanged
  \/ handleInput
  \/ handleEdit
  \/ DT_cancelEdit
  \/ App_handleSubmit
  \/ App_handleDelete
  \/ storeCommit
  \/ writeResolved
  \/ App_writeRejected
  \/ DT_handleSubmit
  \/ DT_handleDelete
  \/ DT_writeRejected
  \/ onSnapshot
  \/ onSnapshotError
  \/ confettiTimeout
  \/ Reload

SpecTx == Init /\ [][NextTx]_vars

\* ---------------------------------------------------- App on its own
\* the transaction side of App: mounting, the form, the remote store, its
\* listener and page reloads
NextApp ==
  \/ App_initEffect
  \/ App_onAuthStateChanged
  \/ handleInput
  \/ handleEdit
  \/ App_handleSubmit
  \/ App_handleDelete
  \/ storeCommit
  \/ writeResolved
  \/ App_writeRejected
  \/ onSnapshot
  \/ confettiTimeout
  \/ Reload

SpecApp == Init /\ [][NextApp]_vars

\* ------------------------------------------------- local-only sessions
\* DigitalTwin without window.__firebase_config: the form, the local list and
\* page reloads
NextLocal ==
  \/ DT_tryInitFirebase
  \/ handleInput
  \/ handleEdit
  \/ DT_cancelEdit
  \/ DT_handleSubmit
  \/ DT_handleDelete
  \/ confettiTimeout
  \/ Reload

SpecLocal == Init /\ [][NextLocal]_vars

\* ------------------------------------------- stores of earlier sessions
\* SpecRisk starts with a store that earlier sessions filled: the same
\* records as documents of the signed-in user and as the local array
StoredData ==
  [amount : StoredAmounts, category : StoredCategories, date : StoredDates,
   timestamp : {0}]

StoredLists == UNION {[1..n -> StoredData] : n \in 0..MaxDocs}

InitRisk ==
  /\ component \in Components
  /\ InitComponentState
  /\ \E s \in StoredLists :
       /\ remote = [u \in Users |->
                      IF u = AuthUid
                        THEN {mkTx(DocId(i), s[i]) : i \in DOMAIN s}
                        ELSE {}]
       /\ localStore =
            [uid |-> LocalUid,
             txs |-> [u \in Users |->
                        IF u = LocalUid
                          THEN << [i \in DOMAIN s |-> mkTx(LocalId(0 - i), s[i])] >>
                          ELSE <<>>]]
  /\ now = 0
  /\ nextId = MaxDocs + 1
  /\ ops = 0
  /\ last = noOp

NextRisk ==
  \/ App_initEffect
  \/ App_onAuthStateChanged
  \/ DT_tryInitFirebase
  \/ DT_initFirebaseDone
  \/ DT_onAuthStateChanged
  \/ onSnapshot

SpecRisk == InitRisk /\ [][NextRisk]_vars

\* the risk label the mounted component renders
riskLabel ==
  IF component = "App" THEN App_getRiskLabel(transactions)
  ELSE DT_riskLabel(transactions)

\* =================================================================== chat
\* a text is the sequence of its characters
MaxLines == 3
LineLimit == 120
Whitespace == {" ", "\n", "\r", "\t"}
SentenceEnd == {".", "!", "?"}

PersonaNames == {"Current You", "Good Twin", "Evil Twin"}

\* the personas object of App's callGeminiAPI
App_personas ==
  [p \in PersonaNames |->
     IF p = "Current You"
       THEN "You are a financial analyst. Provide a response of no more than 3 lines. Provide a concise, single-paragraph summary of the key financial findings, using the user's transaction data to ground your advice."
     ELSE IF p = "Good Twin"
       THEN "You are an encouraging and positive financial coach. Provide a response of no more than 3 lines. Provide inspiring, actionable advice for building wealth and making smart financial choices. Avoid being overly strict or preachy."
     ELSE "You are a mischievous financial advisor with a flair for the dramatic. You encourage risky, fun, and impulsive spending. Provide a response of no more than 3 lines. Your advice should be exciting and rebellious, but always include a disclaimer that it's 'not financial advice'."]

\* the personas object of DigitalTwin
DT_personas ==
  [p \in PersonaNames |->
     IF p = "Current You"
       THEN "You are a financial analyst. Provide concise, practical observations grounded in the user's spending data."
     ELSE IF p = "Good Twin"
       THEN "You are an encouraging financial coach. Provide gentle, actionable tips to save and grow wealth."
     ELSE "You are a mischievous advisor encouraging risky fun. Always include a disclaimer: not financial advice."]

personas == IF component = "App" THEN App_personas ELSE DT_personas

\* mutant: the lookup misses and the fallback instruction is sent
systemPromptOf_fallback(p) == personas["Current You"]

\* personas[selectedPersona] || personas['Current You']
systemPromptOf(p) ==
  IF p \in DOMAIN personas THEN personas[p] ELSE personas["Current You"]

presetQuestion1 ==
  <<"G", "a", "m", "b", "l", "i", "n", "g", " ", "p", "r", "o", "b", "l",
    "e", "m", "?">>
presetQuestion2 ==
  <<"I", "n", "v", "e", "s", "t", "m", "e", "n", "t", "s", "?">>
presetQuestion3 ==
  <<"H", "o", "w", "'", "s", " ", "m", "y", " ", "l", "i", "f", "e", "s",
    "t", "y", "l", "e", "?">>
presetQuestion4 ==
  <<"H", "o", "w", " ", "t", "o", " ", "s", "a", "v", "e", " ", "m", "o",
    "r", "e", "?">>
presetQuestions ==
  {presetQuestion1, presetQuestion2, presetQuestion3, presetQuestion4}

App_noCandidateText ==
  <<"I", "'", "m", " ", "s", "o", "r", "r", "y", ",", " ", "I", " ", "c",
    "o", "u", "l", "d", "n", "'", "t", " ", "g", "e", "n", "e", "r", "a",
    "t", "e", " ", "a", " ", "r", "e", "s", "p", "o", "n", "s", "e", " ",
    "a", "t", " ", "t", "h", "i", "s", " ", "t", "i", "m", "e", ".">>
App_errorText ==
  <<"T", "h", "e", "r", "e", " ", "w", "a", "s", " ", "a", "n", " ", "e",
    "r", "r", "o", "r", " ", "c", "o", "n", "n", "e", "c", "t", "i", "n",
    "g", " ", "t", "o", " ", "t", "h", "e", " ", "f", "i", "n", "a", "n",
    "c", "i", "a", "l", " ", "t", "w", "i", "n", ".", " ", "P", "l", "e",
    "a", "s", "e", " ", "t", "r", "y", " ", "a", "g", "a", "i", "n", ".">>
DT_noResponseText ==
  <<"N", "o", " ", "r", "e", "s", "p", "o", "n", "s", "e">>
DT_errorText ==
  <<"E", "r", "r", "o", "r", " ", "c", "o", "n", "t", "a", "c", "t", "i",
    "n", "g", " ", "G", "e", "m", "i", "n", "i", ".", " ", "P", "l", "e",
    "a", "s", "e", " ", "t", "r", "y", " ", "a", "g", "a", "i", "n", " ",
    "l", "a", "t", "e", "r", ".">>

\* what the user types into the chat box: nothing, a blank, a question
ChatInputs == {<<>>, <<" ">>, <<"h", "i">>}

\* reply texts of the language model
ResponseTexts == {<<"A", ".", " ", "B", ".", "\n", "\n", "C", "\n", "D">>}

\* any reply text: the texts of up to MaxText characters over letters,
\* sentence ends and newlines
TextAlphabet == {"a", ".", "\n"}
AnyTexts == UNION {[1..n -> TextAlphabet] : n \in 1..MaxText}

\* the preset button the user clicks
PresetClicks == {presetQuestion1}

\* sources of a message: the field is absent, an empty list, or a list of
\* cited pages
NoSources == "undefined"
EmptySources == "[]"
CitedSources == "[cited]"

RECURSIVE trimStart(_)
trimStart(s) ==
  IF s # <<>> /\ Head(s) \in Whitespace THEN trimStart(Tail(s)) ELSE s

RECURSIVE trimEnd(_)
trimEnd(s) ==
  IF s # <<>> /\ s[Len(s)] \in Whitespace
    THEN trimEnd(SubSeq(s, 1, Len(s) - 1))
    ELSE s

\* a trim that removes nothing
trim_nothing(s) == s

trim(s) == trimEnd(trimStart(s))

\* .replace(/\r\n/g, '\n')
RECURSIVE replaceCRLF(_)
replaceCRLF(s) ==
  IF Len(s) < 2 THEN s
  ELSE IF s[1] = "\r" /\ s[2] = "\n"
    THEN <<"\n">> \o replaceCRLF(SubSeq(s, 3, Len(s)))
    ELSE <<s[1]>> \o replaceCRLF(Tail(s))

\* s.split(c)
RECURSIVE split(_, _)
split(s, c) ==
  IF \A i \in DOMAIN s : s[i] # c THEN <<s>>
  ELSE LET i == CHOOSE j \in DOMAIN s :
                  s[j] = c /\ \A k \in 1..(j - 1) : s[k] # c
       IN <<SubSeq(s, 1, i - 1)>> \o split(SubSeq(s, i + 1, Len(s)), c)

\* lines.join(sep)
RECURSIVE join(_, _)
join(lines, sep) ==
  IF lines = <<>> THEN <<>>
  ELSE IF Len(lines) = 1 THEN lines[1]
  ELSE lines[1] \o sep \o join(Tail(lines), sep)

\* lines.map(l => l.trim()).filter(Boolean)
RECURSIVE trimmedLines(_)
trimmedLines(lines) ==
  IF lines = <<>> THEN <<>>
  ELSE IF trim(Head(lines)) = <<>> THEN trimmedLines(Tail(lines))
  ELSE <<trim(Head(lines))>> \o trimmedLines(Tail(lines))

\* s.split(/(?<=[.!?])\s+/) from position i on, cur being the piece so far:
\* a run of whitespace that follows a sentence end separates two pieces
RECURSIVE splitSentences(_, _, _)
splitSentences(s, i, cur) ==
  IF i > Len(s) THEN <<cur>>
  ELSE IF s[i] \in Whitespace /\ i > 1 /\ s[i - 1] \in SentenceEnd
    THEN LET j == CHOOSE k \in i..Len(s) :
                    /\ \A m \in i..k : s[m] \in Whitespace
                    /\ (k = Len(s) \/ s[k + 1] \notin Whitespace)
         IN <<cur>> \o splitSentences(s, j + 1, <<>>)
    ELSE splitSentences(s, i + 1, Append(cur, s[i]))

\* the for loop of shortenToMaxLines over the sentences left, with the
\* lines pushed so far and the line being built; the result is resultLines
\* after the loop's exit and the final push
RECURSIVE aggregate(_, _, _)
aggregate(sentences, resultLines, current) ==
  IF sentences = <<>>
    THEN IF Len(resultLines) < MaxLines /\ current # <<>>
           THEN Append(resultLines, current)
           ELSE resultLines
  ELSE LET cur == IF current = <<>> THEN trim(Head(sentences))
                  ELSE current \o <<" ">> \o trim(Head(sentences))
           push == Len(cur) > LineLimit
                   \/ (cur # <<>> /\ cur[Len(cur)] \in SentenceEnd)
           lines == IF push THEN Append(resultLines, cur) ELSE resultLines
           rest == IF push THEN <<>> ELSE cur
       IN IF Len(lines) >= MaxLines
            THEN IF Len(lines) < MaxLines /\ rest # <<>>
                   THEN Append(lines, rest)
                   ELSE lines
            ELSE aggregate(Tail(sentences), lines, rest)

shortenToMaxLines(text) ==
  IF text = <<>> THEN text
  ELSE LET normalized == replaceCRLF(trim(text))
           lines == trimmedLines(split(normalized, "\n"))
       IN IF Len(lines) >= MaxLines
            THEN join(SubSeq(lines, 1, MaxLines), <<"\n">>)
            ELSE LET resultLines ==
                       aggregate(splitSentences(normalized, 1, <<>>), <<>>, <<>>)
                 IN join(SubSeq(resultLines, 1,
                                IF Len(resultLines) < MaxLines
                                  THEN Len(resultLines) ELSE MaxLines),
                         <<"\n">>)

\* shortenToMaxLines('No response', 3) and shortenToMaxLines('Error
\* contacting Gemini. Please try again later.', 3)
DT_noResponseReply == shortenToMaxLines(DT_noResponseText)
DT_errorReply == shortenToMaxLines(DT_errorText)

\* the transaction state
storeVars == <<component, initPc, db, userId, listening, transactions, form,
               editingId, showConfetti, remote, localStore, writes, now,
               nextId, ops>>

userMessage(text) ==
  [role |-> "user", personaName |-> "You", text |-> text,
   sources |-> NoSources]

\* mutant: the reply is recorded with the role of the user's messages
botMessage_asUser(persona, text, sources) ==
  [role |-> "user", personaName |-> persona, text |-> text,
   sources |-> sources]

botMessage(persona, text, sources) ==
  [role |-> "bot", personaName |-> persona, text |-> text,
   sources |-> sources]

\* questions asked so far
asked == Len(SelectSeq(chatHistory, LAMBDA m : m.role = "user"))

\* the request a submit sends, with the persona of the render it ran in
chatRequest(prompt) ==
  [prompt |-> prompt, persona |-> selectedPersona,
   systemPrompt |-> systemPromptOf(selectedPersona)]

\* what a call of the language model comes back with: a reply of a
\* candidate with or without cited pages, a reply without candidate text,
\* or a failure (fetch rejects, status not ok, body not JSON)
ApiOutcomesOf(texts) ==
  [kind : {"text"}, text : texts, sources : {EmptySources, CitedSources}]
  \cup {[kind |-> "empty", text |-> <<>>, sources |-> EmptySources],
        [kind |-> "failed", text |-> <<>>, sources |-> EmptySources]}

ApiOutcomes == ApiOutcomesOf(ResponseTexts)

\* `last` after the reply to an outcome
replyOp(o) ==
  IF o.kind = "text" THEN "replyText"
  ELSE IF o.kind = "empty" THEN "replyEmpty"
  ELSE "replyFailed"

\* the sequence without its i-th element
RemoveAt(s, i) == [j \in 1..(Len(s) - 1) |-> IF j < i THEN s[j] ELSE s[j + 1]]

\* onChange of the chat input; DigitalTwin disables it while loading
setChatInput ==
  /\ component = "DigitalTwin" => ~isChatLoading
  /\ \E v \in ChatInputs :
       /\ v # chatInput
       /\ chatInput' = v
  /\ last' = noOp
  /\ UNCHANGED <<storeVars, selectedPersona, chatHistory, isChatLoading,
                 requests>>

\* onClick of a persona button
setSelectedPersona ==
  /\ \E p \in PersonaNames :
       /\ p # selectedPersona
       /\ selectedPersona' = p
  /\ last' = noOp
  /\ UNCHANGED <<storeVars, chatInput, chatHistory, isChatLoading, requests>>

\* mutant: the user message is put in front of the history
App_submitChat_prepend(input) ==
  /\ Len(requests) < MaxInFlight
  /\ chatHistory' = <<userMessage(input)>> \o chatHistory
  /\ isChatLoading' = TRUE
  /\ requests' = Append(requests, chatRequest(input))

\* handleChatSubmit up to its await, for the chatInput of its closure
App_submitChat(input) ==
  /\ Len(requests) < MaxInFlight
  /\ chatHistory' = Append(chatHistory, userMessage(input))
  /\ isChatLoading' = TRUE
  /\ requests' = Append(requests, chatRequest(input))

\* Send button or Enter: returns at once on a blank input
App_handleChatSubmit ==
  /\ component = "App"
  /\ trim(chatInput) # <<>>
  /\ asked < MaxChat
  /\ App_submitChat(chatInput)
  /\ chatInput' = <<>>
  /\ last' = noOp
  /\ UNCHANGED <<storeVars, selectedPersona>>

\* setChatInput(question); handleChatSubmit(): the submit runs in the
\* closure of the current render and reads the chatInput of before the click
App_handleDefaultQuestionClick ==
  /\ component = "App"
  /\ \E question \in PresetClicks :
       IF trim(chatInput) = <<>>
         THEN /\ chatInput' = question
              /\ UNCHANGED <<chatHistory, isChatLoading, requests>>
         ELSE /\ asked < MaxChat
              /\ App_submitChat(chatInput)
              /\ chatInput' = <<>>
  /\ last' = noOp
  /\ UNCHANGED <<storeVars, selectedPersona>>

\* mutant: a failed call is not caught and the reply carries no text
App_botResponse_uncaught(o) ==
  IF o.kind = "text" THEN [text |-> o.text, sources |-> o.sources]
  ELSE IF o.kind = "empty"
    THEN [text |-> App_noCandidateText, sources |-> NoSources]
  ELSE [text |-> <<>>, sources |-> NoSources]

\* callGeminiAPI's result
App_botResponse(o) ==
  IF o.kind = "text" THEN [text |-> o.text, sources |-> o.sources]
  ELSE IF o.kind = "empty"
    THEN [text |-> App_noCandidateText, sources |-> NoSources]
  ELSE [text |-> App_errorText, sources |-> NoSources]

\* a reply labelled with the persona selected when it arrives
App_chatResponseOf_arrivalPersona(outcomes) ==
  /\ component = "App"
  /\ \E i \in DOMAIN requests, o \in outcomes :
       LET botResponse == App_botResponse(o) IN
       /\ chatHistory' = Append(chatHistory,
                                botMessage(selectedPersona,
                                           botResponse.text,
                                           botResponse.sources))
       /\ requests' = RemoveAt(requests, i)
       /\ last' = [op |-> replyOp(o), id |-> NoId]
  /\ isChatLoading' = FALSE
  /\ UNCHANGED <<storeVars, selectedPersona, chatInput>>

\* handleChatSubmit after its await; the requests in flight answer in any
\* order
App_chatResponseOf(outcomes) ==
  /\ component = "App"
  /\ \E i \in DOMAIN requests, o \in outcomes :
       LET botResponse == App_botResponse(o) IN
       /\ chatHistory' = Append(chatHistory,
                                botMessage(requests[i].persona,
                                           botResponse.text,
                                           botResponse.sources))
       /\ requests' = RemoveAt(requests, i)
       /\ last' = [op |-> replyOp(o), id |-> NoId]
  /\ isChatLoading' = FALSE
  /\ UNCHANGED <<storeVars, selectedPersona, chatInput>>

\* the generative-language API keys: DigitalTwin's GEMINI_API_KEY is a
\* non-empty literal in the source (its value is elided here, only its
\* emptiness is tested), App's apiKey is the empty string
GEMINI_API_KEY == "AIza..."
App_apiKey == ""

\* a key is configured for the mounted component
apiKeyConfigured ==
  IF component = "App" THEN App_apiKey # "" ELSE GEMINI_API_KEY # ""

\* `(No Gemini API key) Mock reply for: ${userPrompt}`
DT_mockPrefix ==
  <<"(", "N", "o", " ", "G", "e", "m", "i", "n", "i", " ", "A", "P", "I",
   " ", "k", "e", "y", ")", " ", "M", "o", "c", "k", " ", "r", "e", "p",
   "l", "y", " ", "f", "o", "r", ":", " ">>

\* callGeminiAPI without a key: the shortened mock text, no sources
DT_mockReply(userPrompt) ==
  [text |-> shortenToMaxLines(DT_mockPrefix \o userPrompt),
   sources |-> EmptySources]

\* sendChat past its guard, up to the await (or, without a key, up to the
\* end: the mock resolves without a fetch and the reply follows at once)
DT_submitChat(question) ==
  /\ IF GEMINI_API_KEY = ""
       THEN /\ chatHistory' =
                 chatHistory \o <<userMessage(question),
                                  botMessage(selectedPersona,
                                             DT_mockReply(question).text,
                                             DT_mockReply(question).sources)>>
            /\ isChatLoading' = FALSE
            /\ UNCHANGED requests
       ELSE /\ chatHistory' = Append(chatHistory, userMessage(question))
            /\ isChatLoading' = TRUE
            /\ requests' = Append(requests, chatRequest(question))
  /\ chatInput' = <<>>

\* sendChat(chatInput) from the Send button or Enter, sendChat(q) from a
\* preset button
DT_sendChat ==
  /\ component = "DigitalTwin"
  /\ ~isChatLoading
  /\ asked < MaxChat
  /\ \E question \in {chatInput} \cup PresetClicks :
       /\ question # <<>>
       /\ trim(question) # <<>>
       /\ DT_submitChat(question)
  /\ last' = noOp
  /\ UNCHANGED <<storeVars, selectedPersona>>

\* callGeminiAPI's result (GEMINI_API_KEY is set, so the mock reply is not
\* taken; callGeminiAPI catches every failure, so sendChat's catch is not
\* taken either)
DT_botResponse(o) ==
  IF o.kind = "text"
    THEN [text |-> shortenToMaxLines(o.text), sources |-> o.sources]
  ELSE IF o.kind = "empty"
    THEN [text |-> DT_noResponseReply, sources |-> EmptySources]
  ELSE [text |-> DT_errorReply, sources |-> EmptySources]

\* sendChat after its await, and its finally
DT_chatResponseOf(outcomes) ==
  /\ component = "DigitalTwin"
  /\ requests # <<>>
  /\ \E o \in outcomes :
       LET bot == DT_botResponse(o) IN
       /\ chatHistory' = Append(chatHistory,
                                botMessage(Head(requests).persona, bot.text,
                                           bot.sources))
       /\ last' = [op |-> replyOp(o), id |-> NoId]
  /\ requests' = Tail(requests)
  /\ isChatLoading' = FALSE
  /\ UNCHANGED <<storeVars, selectedPersona, chatInput>>

App_chatResponse == App_chatResponseOf(ApiOutcomes)

DT_chatResponse == DT_chatResponseOf(ApiOutcomes)

\* ------------------------------------------------ the chat controls
\* The chat controls operated in every state in which they are enabled, the
\* early returns of their handlers included; last records the control.

\* App: Send button or Enter (never disabled)
App_pressSend ==
  /\ component = "App"
  /\ IF trim(chatInput) = <<>>
       THEN UNCHANGED <<chatInput, chatHistory, isChatLoading, requests>>
       ELSE /\ asked < MaxChat
            /\ App_submitChat(chatInput)
            /\ chatInput' = <<>>
  /\ last' = [op |-> "send", id |-> NoId]
  /\ UNCHANGED <<storeVars, selectedPersona>>

\* App: a default question button; handleChatSubmit runs in the closure of
\* the current render and reads the chatInput of before the click
App_clickPreset ==
  /\ component = "App"
  /\ \E question \in PresetClicks :
       IF trim(chatInput) = <<>>
         THEN /\ chatInput' = question
              /\ UNCHANGED <<chatHistory, isChatLoading, requests>>
         ELSE /\ asked < MaxChat
              /\ App_submitChat(chatInput)
              /\ chatInput' = <<>>
  /\ last' = [op |-> "preset", id |-> NoId]
  /\ UNCHANGED <<storeVars, selectedPersona>>

\* sendChat that does not look at isChatLoading
DT_sendChatCall_unguarded(question) ==
  IF question = <<>> \/ trim(question) = <<>>
    THEN UNCHANGED <<chatInput, chatHistory, isChatLoading, requests>>
    ELSE /\ asked < MaxChat
         /\ DT_submitChat(question)

\* the whole of sendChat(question)
DT_sendChatCall(question) ==
  IF question = <<>> \/ trim(question) = <<>> \/ isChatLoading
    THEN UNCHANGED <<chatInput, chatHistory, isChatLoading, requests>>
    ELSE /\ asked < MaxChat
         /\ DT_submitChat(question)

\* DigitalTwin: Send button or Enter, both disabled while isChatLoading
DT_pressSend ==
  /\ component = "DigitalTwin"
  /\ ~isChatLoading
  /\ DT_sendChatCall(chatInput)
  /\ last' = [op |-> "send", id |-> NoId]
  /\ UNCHANGED <<storeVars, selectedPersona>>

\* DigitalTwin: a preset question button (never disabled)
DT_clickPreset ==
  /\ component = "DigitalTwin"
  /\ \E q \in PresetClicks : DT_sendChatCall(q)
  /\ last' = [op |-> "preset", id |-> NoId]
  /\ UNCHANGED <<storeVars, selectedPersona>>

NextAsk ==
  \/ setChatInput
  \/ App_pressSend
  \/ App_clickPreset
  \/ App_chatResponse
  \/ DT_pressSend
  \/ DT_clickPreset
  \/ DT_chatResponse

SpecAsk == Init /\ [][NextAsk]_vars

NextChat ==
  \/ setChatInput
  \/ setSelectedPersona
  \/ App_handleChatSubmit
  \/ App_handleDefaultQuestionClick
  \/ App_chatResponse
  \/ DT_sendChat
  \/ DT_chatResponse

SpecChat == Init /\ [][NextChat]_vars

\* ------------------------------------------------- replies of any text
App_chatResponseAnyText ==
  App_chatResponseOf([kind : {"text"}, text : AnyTexts,
                      sources : {EmptySources}])

DT_chatResponseAnyText ==
  DT_chatResponseOf([kind : {"text"}, text : AnyTexts,
                     sources : {EmptySources}])

\* questions asked from the preset button and answered by any text
NextShorten ==
  \/ App_handleDefaultQuestionClick
  \/ App_handleChatSubmit
  \/ App_chatResponseAnyText
  \/ DT_sendChat
  \/ DT_chatResponseAnyText

SpecShorten == Init /\ [][NextShorten]_vars

\* --------------------------------------------- requests that all settle
\* every request eventually resolves or rejects: a reply that can arrive
\* does arrive
NextReply ==
  \/ setSelectedPersona
  \/ App_handleDefaultQuestionClick
  \/ App_handleChatSubmit
  \/ App_chatResponse
  \/ DT_sendChat
  \/ DT_chatResponse

SpecReply ==
  /\ Init /\ [][NextReply]_vars
  /\ WF_vars(App_chatResponse) /\ WF_vars(DT_chatResponse)

Next == NextTx \/ NextApp \/ NextLocal \/ NextChat \/ NextAsk \/ NextShorten \/ NextReply

Spec == Init /\ [][Next]_vars

\* ================================================================ claims
\* ---------------------------------------------------- risk label (SpecRisk)
FourTiers == {"Low Risk", "Moderate Risk", "High Risk", "Extremely High Risk"}
RiskyCategories == {"Gambling", "High-Risk Investments"}
WantsCategories == {"Wants", "Subscriptions", "Fun"}

\* days of the trailing 30-day window that ends today, and days the
\* components' filter lets through (everything later than 30 days ago)
AllDates == StoredDates \cup FormDates
TrailingDays == {d \in AllDates : d > Today - WindowDays /\ d <= Today}
FilterDays == {d \in AllDates : d > Today - WindowDays}

\* spend of the transactions dated in `days` with a category in `cats`
RECURSIVE SpendIn(_, _, _)
SpendIn(txs, days, cats) ==
  IF txs = <<>> THEN 0
  ELSE (IF Head(txs).date \in days /\ Head(txs).category \in cats
          THEN Head(txs).amount ELSE 0)
       + SpendIn(Tail(txs), days, cats)

\* the four-tier lookup on p = 100 * risky / total, strict comparisons
LookupP(risky, total) ==
  IF total = 0 THEN "Low Risk"
  ELSE IF 100 * risky > 10 * total THEN "Extremely High Risk"
  ELSE IF 100 * risky > 5 * total THEN "High Risk"
  ELSE IF 100 * risky > total THEN "Moderate Risk"
  ELSE "Low Risk"

\* the tier App's share of Wants, Subscriptions and Fun asks for
LookupWants(wants, total) ==
  IF 100 * wants > 50 * total THEN "High Risk"
  ELSE IF 100 * wants > 30 * total THEN "Moderate Risk"
  ELSE "Low Risk"

TierRank(label) ==
  CASE label = "Low Risk" -> 0
    [] label = "Moderate Risk" -> 1
    [] label = "High Risk" -> 2
    [] label = "Extremely High Risk" -> 3

HigherTier(a, b) == IF TierRank(a) >= TierRank(b) THEN a ELSE b

labelOf(txs) ==
  IF component = "App" THEN App_getRiskLabel(txs) ELSE DT_riskLabel(txs)

C5_OnlyWindowCounts_AsStated ==
  \A i \in DOMAIN transactions :
    transactions[i].date \notin TrailingDays
      => labelOf(RemoveAt(transactions, i)) = labelOf(transactions)

\* ------------------------------------------------- transactions (SpecTx)
IdsOf(docs) == {d.id : d \in docs}

\* C1 as stated: a submit in edit mode stores the edited data under the
\* id being edited, brings no other id into the store or list and leaves
\* the number of transactions as it was, whatever deletes and snapshots came
\* between handleEdit and the submit
C1_EditPreservesId_AsStated ==
  [][ /\ last'.op = "commitSet" =>
           LET u == writes[1].user
           IN /\ IdsOf(remote'[u]) = IdsOf(remote[u])
              /\ Cardinality(remote'[u]) = Cardinality(remote[u])
              /\ mkTx(editingId, writes[1].data) \in remote'[u]
      /\ last'.op \in {"localEdit", "fallbackEdit"} =>
           /\ Ids(transactions') = Ids(transactions)
           /\ Len(transactions') = Len(transactions)
           /\ \E i \in DOMAIN transactions' :
                /\ transactions'[i].id = last'.id
                /\ transactions'[i].category =
                     (IF last'.op = "localEdit" THEN form.category
                      ELSE writes[1].data.category)
    ]_vars

\* C6 as stated: no two entries of the transactions list have the same id
C6_UniqueIds_AsStated ==
  \A i, j \in DOMAIN transactions :
    i # j => transactions[i].id # transactions[j].id

\* C7: every transaction in the transactions list has one of the 14 fixed
\* categories, whether it came from a submit, an edit, a snapshot or a load
\* from local storage
C7_CategoryInFixedSet ==
  \A i \in DOMAIN transactions : transactions[i].category \in defaultCategories

\* C7 witness: DigitalTwin has just mounted and loaded a Gambling transaction
\* of an earlier page session from local storage
C7_Witness ==
  /\ component = "DigitalTwin" /\ last.op = "mount"
  /\ \E i \in DOMAIN transactions : transactions[i].category = "Gambling"

\* C8 as stated: an edit leaves the timestamp of the edited transaction at
\* its creation value, in the store and in the local list
C8_TimestampKept_AsStated ==
  [][ /\ last'.op = "commitSet" =>
           \A d \in remote[writes[1].user], e \in remote'[writes[1].user] :
             d.id = last'.id /\ e.id = last'.id => e.timestamp = d.timestamp
      /\ last'.op \in {"localEdit", "fallbackEdit"} =>
           \A i \in DOMAIN transactions :
             transactions[i].id = last'.id
               => transactions'[i].timestamp = transactions[i].timestamp
    ]_vars

\* C9 as stated: a successful add puts exactly one new transaction with the
\* form's amount, category and date into the store or list and changes no
\* other; a confirmed delete of id i removes exactly the transaction with id
\* i and changes no other; a declined delete changes nothing
C9_TouchOnlyTarget_AsStated ==
  [][ /\ last'.op = "submit" /\ editingId = NoId =>
           LET w == writes'[Len(writes')]
           IN /\ <<w.data.amount>> = form.amount
              /\ w.data.category = form.category
              /\ w.data.date = form.date
      /\ last'.op = "commitAdd" =>
           LET u == writes[1].user
           IN /\ last'.id \notin IdsOf(remote[u])
              /\ remote'[u] = remote[u] \cup {mkTx(last'.id, writes[1].data)}
      /\ last'.op = "localAdd" =>
           /\ Len(transactions') = Len(transactions) + 1
           /\ Tail(transactions') = transactions
           /\ <<Head(transactions').amount>> = form.amount
           /\ Head(transactions').category = form.category
           /\ Head(transactions').date = form.date
      /\ last'.op = "commitDelete" =>
           LET u == writes[1].user
               removed == remote[u] \ remote'[u]
           IN /\ remote'[u] \subseteq remote[u]
              /\ Cardinality(removed) <= 1
              /\ last'.id \notin IdsOf(remote'[u])
              /\ \A d \in removed : d.id = last'.id
      /\ last'.op = "localDelete" =>
           \E i \in DOMAIN transactions :
             /\ transactions[i].id = last'.id
             /\ transactions' = RemoveAt(transactions, i)
      /\ last'.op = "declineDelete" =>
           UNCHANGED <<transactions, form, editingId, showConfetti, remote,
                       localStore, writes, db, userId>>
    ]_vars

\* ------------------------------------------------------- chat (SpecChat)
IsPrefix(s, t) == Len(s) <= Len(t) /\ SubSeq(t, 1, Len(s)) = s

\* C10: the chat history is append-only: across every step (submissions,
\* response arrivals, failures, persona changes, in any interleaving) the
\* previous chatHistory is a prefix of the new chatHistory
C10_AppendOnly == [][IsPrefix(chatHistory, chatHistory')]_vars

\* two questions in flight at once, answered after a persona change, the
\* first answer being a failure
C10_Witness ==
  /\ Len(chatHistory) = 4
  /\ chatHistory[1].role = "user" /\ chatHistory[2].role = "user"
  /\ chatHistory[3].role = "bot" /\ chatHistory[4].role = "bot"
  /\ chatHistory[3].text = App_errorText
  /\ chatHistory[3].personaName # chatHistory[4].personaName
  /\ selectedPersona # chatHistory[4].personaName

\* C11 as stated: every message in chatHistory has role 'user' or
\* 'assistant'
C11_Roles_AsStated ==
  \A i \in DOMAIN chatHistory : chatHistory[i].role \in {"user", "assistant"}

\* C11: every message in chatHistory has role 'user' or 'bot': the message
\* a submit appends has role 'user' and carries the submitted text, the
\* message a reply (the model's text, 'no response' or an error text)
\* appends has role 'bot'
C11_Roles ==
  [][/\ \A i \in DOMAIN chatHistory' :
          chatHistory'[i].role \in {"user", "bot"}
     /\ Len(chatHistory') > Len(chatHistory) =>
          LET m == chatHistory'[Len(chatHistory')]
          IN IF Len(requests') > Len(requests)
               THEN /\ m.role = "user"
                    /\ m.text = requests'[Len(requests')].prompt
               ELSE m.role = "bot"
    ]_vars

\* DigitalTwin: a question answered by the error text
C11_Witness ==
  /\ component = "DigitalTwin"
  /\ Len(chatHistory) = 2
  /\ chatHistory[1].role = "user"
  /\ chatHistory[2].role = "bot"
  /\ chatHistory[2].text = DT_errorReply

\* C12: selectedPersona is always one of Current You, Good Twin, Evil Twin;
\* the system instruction of a request a submit issues is the instruction
\* the component's personas object maps the persona selected at that moment
\* to, and every request in flight keeps the instruction of the persona it
\* was issued under
C12_PersonaInstruction ==
  [][/\ selectedPersona' \in {"Current You", "Good Twin", "Evil Twin"}
     /\ Len(requests') > Len(requests) =>
          LET r == requests'[Len(requests')]
          IN /\ r.persona = selectedPersona
             /\ r.systemPrompt = personas[selectedPersona]
     /\ \A i \in DOMAIN requests' :
          requests'[i].systemPrompt = personas[requests'[i].persona]
    ]_vars

\* App: a request issued under Evil Twin is in flight and the user has
\* switched to Good Twin
C12_Witness ==
  /\ component = "App"
  /\ selectedPersona = "Good Twin"
  /\ \E i \in DOMAIN requests :
       /\ requests[i].persona = "Evil Twin"
       /\ requests[i].systemPrompt = App_personas["Evil Twin"]

\* ------------------------------------------- reply texts (SpecShorten)
newlines(text) == Len(SelectSeq(text, LAMBDA c : c = "\n"))

\* C13 as stated: whatever text the endpoint returns, the text of the
\* reply message appended to chatHistory has at most 3 lines, that is at
\* most 2 newline characters
C13_AtMostThreeLines_AsStated ==
  \A i \in DOMAIN chatHistory :
    chatHistory[i].role = "bot" => newlines(chatHistory[i].text) <= 2

\* ------------------------------------------- fallbacks (SpecTx)
\* C14 as stated: in DigitalTwin, when the remote add of a submit fails, the
\* submitted transaction is inserted into the transactions list, and a
\* locally held transaction stays in the list across every later step
\* (snapshot deliveries and further submits included) unless that step is
\* the user's delete of it; a page reload is not counted as a step here
C14_FallbackKept_AsStated ==
  [][(component = "DigitalTwin" /\ last'.op # "reload") =>
       /\ last'.op = "fallbackAdd" =>
            /\ last'.id \in Ids(transactions')
            /\ Len(transactions') = Len(transactions) + 1
       /\ \A i \in DOMAIN transactions :
            ( /\ db
              /\ transactions[i].id[1] = "local"
              /\ ~ ( /\ last'.op \in {"localDelete", "fallbackDelete"}
                     /\ last'.id = transactions[i].id ) )
            => transactions[i].id \in Ids(transactions')
    ]_vars

\* C15 as stated: once initialisation has ended without a signed-in remote
\* user (the store is not configured, its initialisation failed, or the
\* sign-in failed), userId is a non-null local identity, and a form submit
\* made without a remote store from then on puts the transaction into the
\* transactions list (App and DigitalTwin)
C15_LocalIdentity_AsStated ==
  [][/\ (initPc' = "done" /\ (~db' \/ userId' # AuthUid)) =>
          userId' = LocalUid
     /\ ( /\ initPc = "done" /\ ~db /\ editingId = NoId
          /\ last'.op \in {"submit", "submitNoop", "localAdd"} ) =>
          /\ Len(transactions') = Len(transactions) + 1
          /\ <<Head(transactions').amount>> = form.amount
    ]_vars

\* ------------------------------------------------- replies (SpecReply)
replied == Len(SelectSeq(chatHistory, LAMBDA m : m.role = "bot"))

countRole(s, role) == Len(SelectSeq(s, LAMBDA m : m.role = role))

\* C16: every accepted chat submission eventually yields exactly one reply
\* message, appended after its user message: the model's text when the
\* request succeeds, the component's fixed text when the request fails or
\* returns no candidate text; and isChatLoading is eventually false again
\* (every request eventually resolves or rejects)
C16_ExactlyOneReply ==
  /\ [](replied + Len(requests) = asked)
  /\ [](\A n \in 1..Len(chatHistory) :
          countRole(SubSeq(chatHistory, 1, n), "bot")
            <= countRole(SubSeq(chatHistory, 1, n), "user"))
  /\ [][Len(requests') < Len(requests) =>
          LET m == chatHistory'[Len(chatHistory')]
          IN /\ Len(chatHistory') = Len(chatHistory) + 1
             /\ Len(requests') = Len(requests) - 1
             /\ m.role = "bot"
             /\ last'.op = "replyText" =>
                  IF component = "App" THEN m.text \in ResponseTexts
                  ELSE m.text \in {shortenToMaxLines(t) : t \in ResponseTexts}
             /\ last'.op = "replyEmpty" =>
                  IF component = "App" THEN m.text = App_noCandidateText
                  ELSE m.text = DT_noResponseReply
             /\ last'.op = "replyFailed" =>
                  IF component = "App" THEN m.text = App_errorText
                  ELSE m.text = DT_errorReply
       ]_vars
  /\ \A k \in 1..MaxChat : (asked >= k) ~> (replied >= k)
  /\ isChatLoading ~> ~isChatLoading

\* App: a question answered by the no-candidate text, nothing in flight
C16_Witness ==
  /\ component = "App"
  /\ Len(chatHistory) = 2
  /\ chatHistory[2].text = App_noCandidateText
  /\ requests = <<>>
  /\ ~isChatLoading

\* --------------------------------------------------------------------
\* C17: in DigitalTwin without a remote store, once the mount effects have
\* settled the local-storage item under the current user's key holds exactly
\* the current transactions list (after every add, edit and delete); a reload
\* leaves local storage alone; and a local-only mount ends with the stored
\* user id and, when that user's item exists, with the stored list as
\* transactions and the item unchanged.
C17_LocalListSurvivesReload ==
  /\ [](component = "DigitalTwin" /\ initPc = "done" /\ ~db
          => /\ userId = localStore.uid
             /\ getLocalKey(localStore, userId) = <<transactions>>)
  /\ [][component = "DigitalTwin" /\ initPc = "done" /\ ~db /\ initPc' = "start"
          => localStore' = localStore]_vars
  /\ [][component = "DigitalTwin" /\ initPc = "start" /\ initPc' = "done"
          => /\ userId' = localUid(localStore)
             /\ getLocalKey(localStore, localUid(localStore)) # <<>>
                  => /\ transactions' = getLocalKey(localStore, localUid(localStore))[1]
                     /\ getLocalKey(localStore', userId')
                          = getLocalKey(localStore, localUid(localStore))]_vars

\* a local-only session mounted again with the list an edit left behind
C17_Witness ==
  /\ component = "DigitalTwin" /\ initPc = "done" /\ ~db
  /\ last.op = "mount"
  /\ Len(transactions) = 1
  /\ transactions[1].category # defaultForm.category
  /\ getLocalKey(localStore, userId) = <<transactions>>

\* --------------------------------------------------------------------
\* C18 (as stated): when no generative-language API key is configured, a
\* chat submission puts no request in flight and is answered at once by a
\* bot message whose text is the mock text of the submitted prompt alone and
\* whose sources list is empty.
C18_MockFallback_AsStated ==
  [][~apiKeyConfigured /\ asked' > asked
       => /\ requests' = requests
          /\ LET n == Len(chatHistory') IN
             /\ n >= 2
             /\ chatHistory'[n].role = "bot"
             /\ chatHistory'[n] =
                  botMessage(chatHistory'[n].personaName,
                             DT_mockReply(chatHistory'[n - 1].text).text,
                             EmptySources)]_vars

C20_EditingIdValid_AsStated ==
  editingId = NoId \/ editingId \in Ids(transactions)

\* --------------------------------------------------------------------
\* C21 (as stated): in App isChatLoading is true in every state in which a
\* request issued by handleChatSubmit still awaits its response, and false
\* when none does.
C21_LoadingIffInFlight_AsStated ==
  component = "App" => (isChatLoading <=> requests # <<>>)

\* --------------------------------------------------------------------
\* C22: in DigitalTwin a sendChat call made while isChatLoading is true
\* changes nothing, at most one request is in flight, chatHistory alternates
\* user message, reply, user message, ... starting with a user message, and
\* a reply is appended directly after the user message whose text was the
\* prompt of the request it answers.
C22_OneRequestAlternation ==
  /\ [](component = "DigitalTwin" => Len(requests) <= 1)
  /\ [](component = "DigitalTwin"
          => \A i \in DOMAIN chatHistory :
               chatHistory[i].role = (IF i % 2 = 1 THEN "user" ELSE "bot"))
  /\ [][component = "DigitalTwin" /\ isChatLoading
          /\ last'.op \in {"send", "preset"}
          => UNCHANGED <<chatInput, chatHistory, isChatLoading, requests>>]_vars
  /\ [][component = "DigitalTwin"
          /\ last'.op \in {"replyText", "replyEmpty", "replyFailed"}
          => /\ requests # <<>>
             /\ chatHistory # <<>>
             /\ chatHistory[Len(chatHistory)] = userMessage(requests[1].prompt)
             /\ Len(chatHistory') = Len(chatHistory) + 1
             /\ SubSeq(chatHistory', 1, Len(chatHistory)) = chatHistory
             /\ chatHistory'[Len(chatHistory')].role = "bot"]_vars

\* DigitalTwin: a preset button was clicked while the second question
\* ('hi', typed) was waiting for its reply, and the click changed nothing
C22_Witness ==
  /\ component = "DigitalTwin"
  /\ last.op = "preset"
  /\ isChatLoading
  /\ Len(chatHistory) = 3
  /\ Len(requests) = 1
  /\ requests[1].prompt = <<"h", "i">>

\* --------------------------------------------------------------------
\* C23 (as stated): a click on a preset question q appends a user message
\* whose text is exactly q and sends a request whose prompt is q, whatever
\* the chat input held before the click (in DigitalTwin: when no reply is
\* awaited, sendChat being a no-op otherwise).
C23_PresetSubmitsQuestion_AsStated ==
  [][last'.op = "preset" /\ (component = "DigitalTwin" => ~isChatLoading)
       => \E q \in PresetClicks :
            /\ chatHistory' = Append(chatHistory, userMessage(q))
            /\ Len(requests') = Len(requests) + 1
            /\ requests'[Len(requests')].prompt = q]_vars

\* --------------------------------------------------------------------
\* C24: the personaName of a reply message is the persona whose system
\* instruction went out with the request the reply answers, also when
\* selectedPersona was changed while the request was in flight.
C24_ReplyLabelledAtSubmission ==
  [][last'.op \in {"replyText", "replyEmpty", "replyFailed"}
       => /\ Len(chatHistory') = Len(chatHistory) + 1
          /\ LET reply == chatHistory'[Len(chatHistory')] IN
             /\ reply.role = "bot"
             /\ reply.personaName \in PersonaNames
             /\ \E i \in DOMAIN requests :
                  /\ requests' = RemoveAt(requests, i)
                  /\ requests[i].systemPrompt = personas[reply.personaName]]_vars

\* a reply labelled 'Evil Twin' arrived while 'Good Twin' was selected
C24_Witness ==
  /\ last.op = "replyText"
  /\ chatHistory # <<>>
  /\ chatHistory[Len(chatHistory)].personaName = "Evil Twin"
  /\ selectedPersona = "Good Twin"

\* --------------------------------------------------------------------
\* C25: in App, when the awaited write of handleSubmit succeeds the form is
\* reset to an empty amount, category Food and today's date, an edit also
\* sets editingId to null and an add raises showConfetti; when db or userId
\* is null, or the write fails, form, editingId, showConfetti and
\* transactions are left as they are; showConfetti is raised by nothing but
\* a successful add.
C25_AppSubmitOutcome ==
  /\ [][component = "App" /\ last'.op = "resolved"
          /\ writes # <<>> /\ writes[1].op \in {"add", "set"}
          => /\ form' = [amount |-> <<>>, category |-> "Food", date |-> todayISO]
             /\ transactions' = transactions
             /\ IF writes[1].op = "set"
                  THEN editingId' = NoId /\ showConfetti' = showConfetti
                  ELSE editingId' = editingId /\ showConfetti' = TRUE]_vars
  /\ [][component = "App"
          /\ \/ last'.op = "submitNoop"
             \/ /\ last'.op = "rejected"
                /\ writes # <<>> /\ writes[1].op \in {"add", "set"}
          => UNCHANGED <<form, editingId, showConfetti, transactions>>]_vars
  /\ [][component = "App" /\ ~showConfetti /\ showConfetti'
          => /\ last'.op = "resolved"
             /\ writes # <<>> /\ writes[1].op = "add"]_vars

\* App: the write of an edit has just succeeded: the document is in the
\* store, editingId is null again and the form is back to its defaults
C25_Witness ==
  /\ component = "App"
  /\ last.op = "resolved" /\ last.id # NoId
  /\ \E d \in remote[userId] : d.id = last.id
  /\ editingId = NoId
  /\ form = [amount |-> <<>>, category |-> "Food", date |-> todayISO]
  /\ ~showConfetti

\* --------------------------------------------------------------------
\* C26: pressing Send (or Enter) while the chat input is empty or holds
\* only whitespace changes neither chatHistory, chatInput nor isChatLoading
\* and sends no request, in App (handleChatSubmit) and in DigitalTwin
\* (sendChat).
C26_BlankSubmitRejected ==
  [][/\ last'.op = "send"
     /\ \A i \in DOMAIN chatInput : chatInput[i] \in {" ", "\n", "\r", "\t"}
     => /\ chatHistory' = chatHistory
        /\ chatInput' = chatInput
        /\ isChatLoading' = isChatLoading
        /\ requests' = requests]_vars

\* Send was pressed on an input of one blank after an earlier question was
\* answered: the history still ends with that reply and the blank is still
\* in the input
C26_Witness ==
  /\ last.op = "send"
  /\ chatInput = <<" ">>
  /\ Len(chatHistory) = 2
  /\ requests = <<>>
  /\ ~isChatLoading
====
